---- MODULE Spec2Model ----
(***************************************************************************)
(* A model of coalib/bearlib/abstractions/Linter.py: the `linter`          *)
(* decorator (option validation and class creation), the prerequisite      *)
(* check, and the per-file pipeline LinterBase.run().                      *)
(*                                                                         *)
(* Python values are encoded as strings ("True", "False", "None", ...),    *)
(* the options dict as a function from option names to such strings.       *)
(***************************************************************************)
EXTENDS FiniteSets, Integers, Sequences, TLC

VARIABLES
    phase,          \* "start" | "decorator" | "created" | "error"
    options,        \* the options dict shared by linter() and the class
    format_class,   \* what _prepare_options returned: "None" or a format
    klass_po,       \* the user class' process_output attribute, "undeclared"
                    \* while no class was handed to the decorator
    error,          \* the exception linter()/_create_linter() raised
    prereq,         \* the last check_prerequisites() call
    sig,            \* the parameter names of the class' three stage functions
    files,          \* the temporary files that exist: path -> content
    runs,           \* per call of run(): its position and local variables
    log,            \* what the linter's runs left behind for later ones
    merged_metadata \* what the last get_metadata() call returned

vars == <<phase, options, format_class, klass_po, error, prereq,
          sig, files, runs, log, merged_metadata>>

declaration == <<phase, options, format_class, klass_po, error, prereq, sig,
                 merged_metadata>>

(***************************************************************************)
(* Option names and values.                                                *)
(***************************************************************************)

\* Line 30-37: the option names every linter accepts.
FixedOptions ==
    {"executable", "output_format", "use_stdin", "use_stdout", "use_stderr",
     "config_suffix", "executable_check_fail_info",
     "prerequisite_check_command"}

\* Names a caller may pass through **options in the model.
ExtraNames ==
    {"prerequisite_check_fail_message", "output_regex", "diff_distance",
     "alpha", "zeta"}

\* The names of the registered format classes, in _format_classes order.
FormatNames == {"regex", "corrected"}

\* The option names a format class reports as processed (its second yield).
FormatOptionNames(fmt) ==
    IF fmt = "regex"
    THEN {"output_regex", "severity_map", "result_message"}
    ELSE {"diff_severity", "result_message", "diff_distance"}

\* A prerequisite_check_fail_message that is not a str.
NonStr == "<int 42>"

DefaultFailMessage == "Prerequisite check failed."

NoError == [kind |-> "none", names |-> <<>>]

\* Python's order on the option names used here (str comparison), as ranks.
NameOrder ==
    <<"alpha", "config_suffix", "diff_distance", "diff_severity",
      "executable", "executable_check_fail_info", "output_format",
      "output_regex", "prerequisite_check_command",
      "prerequisite_check_fail_message", "result_message", "severity_map",
      "use_stderr", "use_stdin", "use_stdout", "zeta">>

Rank(n) == CHOOSE i \in 1..Len(NameOrder) : NameOrder[i] = n

\* sorted(names): repeatedly take the least remaining name.
RECURSIVE sorted(_)
sorted(S) ==
    IF S = {} THEN <<>>
    ELSE LET m == CHOOSE x \in S : \A y \in S : Rank(x) <= Rank(y)
         IN  <<m>> \o sorted(S \ {m})

\* An iteration order of a set that is not the sorted one.
RECURSIVE unsorted(_)
unsorted(S) ==
    IF S = {} THEN <<>>
    ELSE LET m == CHOOSE x \in S : \A y \in S : Rank(x) >= Rank(y)
         IN  <<m>> \o unsorted(S \ {m})

(***************************************************************************)
(* _prepare_options(options), lines 21-77, one check after the other.      *)
(***************************************************************************)

\* Line 39: neither output stream is used.
NoOutputStreams(o) == o["use_stdout"] = "False" /\ o["use_stderr"] = "False"

\* Line 42: a non-empty prerequisite_check_command tuple is truthy.
HasPrerequisiteCommand(o) == o["prerequisite_check_command"] # "()"

\* Lines 43-46: assert_right_type raises TypeError for a non-str message.
FailMessageTypeError(o) ==
    /\ HasPrerequisiteCommand(o)
    /\ "prerequisite_check_fail_message" \in DOMAIN o
    /\ o["prerequisite_check_fail_message"] = NonStr

\* Lines 42-49: the options dict after the in-place default of the message.
WithFailMessage(o) ==
    IF HasPrerequisiteCommand(o)
       /\ "prerequisite_check_fail_message" \notin DOMAIN o
    THEN [k \in DOMAIN o \cup {"prerequisite_check_fail_message"} |->
            IF k \in DOMAIN o THEN o[k] ELSE DefaultFailMessage]
    ELSE o

\* Lines 60-65: output_format names no registered format class.
InvalidOutputFormat(o) ==
    o["output_format"] # "None" /\ o["output_format"] \notin FormatNames

\* Lines 30-37, 51, 68: the allowed option names once all checks before the
\* superfluous-option check have passed.
AllowedOptions(o) ==
    FixedOptions
        \cup (IF HasPrerequisiteCommand(o)
              THEN {"prerequisite_check_fail_message"} ELSE {})
        \cup (IF o["output_format"] # "None"
              THEN FormatOptionNames(o["output_format"]) ELSE {})

\* Line 71: options.keys() - allowed_options.
SuperfluousOptions(o) == DOMAIN WithFailMessage(o) \ AllowedOptions(o)

\* The error of lines 72-75 with the names in set order, not sorted.
SuperfluousErrorUnsorted(o) ==
    [kind |-> "ValueError: Invalid keyword arguments provided",
     names |-> unsorted(SuperfluousOptions(o))]

\* Lines 72-75: the error that lists the superfluous options.
SuperfluousError(o) ==
    [kind |-> "ValueError: Invalid keyword arguments provided",
     names |-> sorted(SuperfluousOptions(o))]

\* _prepare_options with the type check of the message before the stream
\* check.
PrepareErrorTypeFirst(o) ==
    IF FailMessageTypeError(o)
    THEN [kind |-> "TypeError: prerequisite_check_fail_message",
          names |-> <<>>]
    ELSE IF NoOutputStreams(o)
    THEN [kind |-> "ValueError: No output streams provided at all.",
          names |-> <<>>]
    ELSE IF InvalidOutputFormat(o)
    THEN [kind |-> "ValueError: Invalid output_format specified.",
          names |-> <<>>]
    ELSE IF SuperfluousOptions(o) # {}
    THEN SuperfluousError(o)
    ELSE NoError

\* Lines 39-75: the exception _prepare_options raises, NoError if none.
PrepareError(o) ==
    IF NoOutputStreams(o)
    THEN [kind |-> "ValueError: No output streams provided at all.",
          names |-> <<>>]
    ELSE IF FailMessageTypeError(o)
    THEN [kind |-> "TypeError: prerequisite_check_fail_message",
          names |-> <<>>]
    ELSE IF InvalidOutputFormat(o)
    THEN [kind |-> "ValueError: Invalid output_format specified.",
          names |-> <<>>]
    ELSE IF SuperfluousOptions(o) # {}
    THEN SuperfluousError(o)
    ELSE NoError

\* Line 77: the format class returned on success.
PrepareResult(o) == o["output_format"]

\* The options dict as _prepare_options leaves it: the default message is
\* stored (line 48) only when the stream check passed.
PreparedOptions(o) == IF NoOutputStreams(o) THEN o ELSE WithFailMessage(o)

(***************************************************************************)
(* linter(...), lines 308-507.                                             *)
(***************************************************************************)

\* Lines 495-502: the options dict linter() builds from its arguments.
LinterOptions(use_stdin, use_stdout, use_stderr, info, command, fmt, extra) ==
    [k \in FixedOptions \cup DOMAIN extra |->
        CASE k = "executable" -> "xlint"
          [] k = "output_format" -> fmt
          [] k = "use_stdin" -> use_stdin
          [] k = "use_stdout" -> use_stdout
          [] k = "use_stderr" -> use_stderr
          [] k = "config_suffix" -> ""
          [] k = "executable_check_fail_info" -> info
          [] k = "prerequisite_check_command" -> command
          [] OTHER -> extra[k]]

\* The value a caller gives an extra option.
ExtraValues(n) ==
    IF n = "prerequisite_check_fail_message"
    THEN {"custom message", NonStr}
    ELSE {"given"}

\* The **options a caller may pass.
ExtraOptions ==
    UNION {{e \in [S -> {"custom message", NonStr, "given"}] :
                \A n \in S : e[n] \in ExtraValues(n)} : S \in SUBSET ExtraNames}

Bools == {"True", "False"}

\* Python values handed around as results: a tag and the string parts.
PyTrue == [t |-> "bool", v |-> <<"True">>]
PyStr(parts) == [t |-> "str", v |-> parts]
PyNone == [t |-> "None", v |-> <<>>]

\* The stage functions before a class is given, and an empty history.
NoSignatures == [generate_config |-> {}, create_arguments |-> {},
                 process_output |-> {}]
NoLog == [not_iterable |-> FALSE]
NoMetadata == [called |-> FALSE, names |-> {}]

NoPrereq == [called |-> FALSE, which |-> "found", call |-> "ok",
             ran |-> FALSE, raised |-> FALSE, result |-> PyNone]

\* linter(executable, ..., **options): builds the options dict and runs
\* _prepare_options on it; an exception means no decorator is returned.
linter ==
    /\ phase = "start"
    /\ \E use_stdout \in Bools, use_stderr \in Bools,
          info \in {"", "Install it."}, command \in {"()", "(xlint, --version)"},
          fmt \in {"None", "regex", "corrected", "xml"},
          extra \in ExtraOptions :
        LET o == LinterOptions("False", use_stdout, use_stderr, info,
                               command, fmt, extra)
        IN  /\ options' = PreparedOptions(o)
            /\ error' = PrepareError(o)
            /\ IF PrepareError(o) = NoError
               THEN /\ phase' = "decorator"
                    /\ format_class' = PrepareResult(o)
               ELSE /\ phase' = "error"
                    /\ UNCHANGED format_class
    /\ UNCHANGED <<klass_po, prereq, sig, files, runs, log,
                   merged_metadata>>

(***************************************************************************)
(* _create_linter(klass, options, format_class), lines 80-305.             *)
(***************************************************************************)

\* What the user class has under the name process_output.
KlassProcessOutput == {"absent", "noncallable", "callable"}

\* The check of lines 206-221 without its else branch (217-221).
CreateLinterErrorNoConflictCheck(o, po) ==
    IF o["output_format"] = "None" /\ po # "callable"
    THEN [kind |-> "ValueError: process_output not provided", names |-> <<>>]
    ELSE NoError

\* Lines 206-221: the check of the user class against output_format.
CreateLinterError(o, po) ==
    IF o["output_format"] = "None"
    THEN IF po # "callable"
         THEN [kind |-> "ValueError: process_output not provided",
               names |-> <<>>]
         ELSE NoError
    ELSE IF po # "absent"
         THEN [kind |-> "ValueError: Found process_output already defined",
               names |-> <<>>]
         ELSE NoError

\* The decorator returned by linter() applied to a user class.
create_linter ==
    /\ phase = "decorator"
    /\ \E po \in KlassProcessOutput :
        /\ klass_po' = po
        /\ error' = CreateLinterError(options, po)
        /\ phase' = IF CreateLinterError(options, po) = NoError
                    THEN "created" ELSE "error"
    /\ UNCHANGED <<options, format_class, prereq, sig, files, runs, log,
                   merged_metadata>>

(***************************************************************************)
(* LinterBase.check_prerequisites(), lines 143-165.                        *)
(***************************************************************************)

\* Lines 152-155: the message for a missing executable.
NotInstalledMessage(o) ==
    PyStr(<<"repr:" , o["executable"], " is not installed.">>
          \o (IF o["executable_check_fail_info"] # ""
              THEN <<" ", o["executable_check_fail_info"]>> ELSE <<>>))

\* check_prerequisites catching CalledProcessError only.
CheckPrerequisitesOSErrorEscapes(o, which, call) ==
    IF which = "missing"
    THEN [called |-> TRUE, which |-> which, call |-> call, ran |-> FALSE,
          raised |-> FALSE, result |-> NotInstalledMessage(o)]
    ELSE IF HasPrerequisiteCommand(o)
    THEN [called |-> TRUE, which |-> which, call |-> call, ran |-> TRUE,
          raised |-> call = "OSError",
          result |-> CASE call = "ok" -> PyTrue
                       [] call = "OSError" -> PyNone
                       [] OTHER ->
                            PyStr(<<o["prerequisite_check_fail_message"]>>)]
    ELSE [called |-> TRUE, which |-> which, call |-> call, ran |-> FALSE,
          raised |-> FALSE, result |-> PyTrue]

\* Lines 151-165: `which` is what shutil.which finds, `call` how check_call
\* ends if it is run ("ok", "CalledProcessError" or "OSError").
CheckPrerequisites(o, which, call) ==
    IF which = "missing"
    THEN [called |-> TRUE, which |-> which, call |-> call, ran |-> FALSE,
          raised |-> FALSE, result |-> NotInstalledMessage(o)]
    ELSE IF HasPrerequisiteCommand(o)
    THEN [called |-> TRUE, which |-> which, call |-> call, ran |-> TRUE,
          raised |-> FALSE,
          result |-> IF call = "ok" THEN PyTrue
                     ELSE PyStr(<<o["prerequisite_check_fail_message"]>>)]
    ELSE [called |-> TRUE, which |-> which, call |-> call, ran |-> FALSE,
          raised |-> FALSE, result |-> PyTrue]

check_prerequisites ==
    /\ phase = "created"
    /\ \E which \in {"found", "missing"},
          call \in {"ok", "CalledProcessError", "OSError"} :
        prereq' = CheckPrerequisites(options, which, call)
    /\ UNCHANGED <<phase, options, format_class, klass_po, error,
                   sig, files, runs, log, merged_metadata>>

InitLinter ==
    /\ phase = "start"
    /\ options = <<>>
    /\ format_class = "None"
    /\ klass_po = "undeclared"
    /\ error = NoError
    /\ prereq = NoPrereq
    /\ sig = NoSignatures
    /\ files = <<>>
    /\ runs = <<>>
    /\ log = NoLog
    /\ merged_metadata = NoMetadata

NextLinter == linter \/ create_linter \/ check_prerequisites

SpecLinter == InitLinter /\ [][NextLinter]_vars

(***************************************************************************)
(* The stage functions' parameters and the routing of **kwargs.            *)
(***************************************************************************)

\* Largest number of temporary file names in use at once in the model.
MaxTmp == 2

\* The names mkstemp may hand out.
Paths == 1..MaxTmp

\* The parameter name a stage function may declare besides the fixed ones.
ParamNames == {"mode"}

\* Names and values a caller may pass to run() as **kwargs.
KwNames == ParamNames \cup {"unused"}
KwValues == {"x", "y"}
Kwargs == UNION {[S -> KwValues] : S \in SUBSET KwNames}

\* The signatures of the stage functions: the fixed parameters of lines 90,
\* 114 and 288 plus the declared ones.
Signatures ==
    {[generate_config |-> {"filename", "file"} \cup g,
      create_arguments |-> {"filename", "file", "config_file"} \cup c,
      process_output |-> {"self", "output", "filename", "file"} \cup p] :
        g \in SUBSET ParamNames, c \in SUBSET ParamNames,
        p \in SUBSET ParamNames}

\* FunctionMetadata.from_function(func, omit): the parameters of func and
\* the names left out of the metadata.
from_function(params, omit) == [params |-> params, omit |-> omit]

\* FunctionMetadata.filter_parameters(metadata, dct): the entries of dct
\* whose name is a parameter of the metadata that is not omitted.
filter_parameters(metadata, dct) ==
    [k \in (metadata.params \ metadata.omit) \cap DOMAIN dct |-> dct[k]]

\* Lines 167-171.
get_create_arguments_metadata(sg) ==
    from_function(sg.create_arguments,
                  {"self", "filename", "file", "config_file"})

\* Lines 173-177.
get_generate_config_metadata(sg) ==
    from_function(sg.generate_config, {"filename", "file"})

\* _get_process_output_metadata without the else branch of lines 185-189.
get_process_output_metadata_fixed_omit(o, sg) ==
    from_function(sg.process_output, {"self", "output", "filename", "file"})

\* Lines 179-192.
get_process_output_metadata(o, sg) ==
    IF o["output_format"] = "None"
    THEN from_function(sg.process_output,
                       {"self", "output", "filename", "file"})
    ELSE from_function(sg.process_output, sg.process_output)

\* FunctionMetadata.merge(a, b, c): the parameters the three descriptions
\* document, each without what it omits.
merge(a, b, c) ==
    (a.params \ a.omit) \cup (b.params \ b.omit) \cup (c.params \ c.omit)

\* Lines 194-204: the parameter names of the merged metadata.
GetMetadata(o, sg) ==
    merge(get_process_output_metadata(o, sg),
          get_generate_config_metadata(sg),
          get_create_arguments_metadata(sg))

\* run() handing every caller parameter to generate_config.
GenerateConfigKwargsUnfiltered(sg, kwargs) == kwargs

\* Lines 252-253.
GenerateConfigKwargs(sg, kwargs) ==
    filter_parameters(get_generate_config_metadata(sg), kwargs)

\* Lines 260-262.
CreateArgumentsKwargs(sg, kwargs) ==
    filter_parameters(get_create_arguments_metadata(sg), kwargs)

\* Lines 286-287.
ProcessOutputKwargs(o, sg, kwargs) ==
    filter_parameters(get_process_output_metadata(o, sg), kwargs)

(***************************************************************************)
(* LinterBase.run() and _create_config(), lines 223-289.                   *)
(*                                                                         *)
(* A run is at "idle" (not called), at one of the calls it makes           *)
(* ("generate_config", "make_temp", "write_config", "create_arguments",    *)
(* "run_shell_command", "process_output"), at "exit" (leaving the with     *)
(* block of line 255 with its outcome decided) or "done" (run() has        *)
(* returned or raised).  config_file is <<>> for None and <<p>> for the    *)
(* path p.                                                                 *)
(***************************************************************************)

IdleRun ==
    [pc |-> "idle", kwargs |-> <<>>, caller_kwargs |-> <<>>,
     gc_kwargs |-> <<>>, content |-> "unset", config_file |-> <<>>,
     made |-> 0, trace |-> <<>>, gc_passed |-> <<>>, ca_passed |-> <<>>,
     ca_config |-> <<>>, po_passed |-> <<>>, tool_args |-> <<>>,
     args |-> "unset", captured |-> <<>>,
     stdin |-> "unset", output |-> PyNone, result |-> PyNone,
     outcome |-> "running", errs |-> 0]

\* What generate_config may return: None, an empty or non-empty str, or
\* something open().write() rejects.
Contents == {"None", "", "<xlint/>", NonStr}

\* make_temp(): leaving its with block removes the file it made.
make_temp_exit(fs, made) == [q \in DOMAIN fs \ made |-> fs[q]]

\* _create_config removing the file on a return only, not on an exception.
FilesAfterExitLeakOnError(fs, rec) ==
    IF rec.outcome = "raised" THEN fs
    ELSE make_temp_exit(fs, {rec.config_file[i] : i \in DOMAIN rec.config_file})

\* _create_config clearing every temporary config file when it is left.
FilesAfterExitRemoveAll(fs, rec) ==
    IF rec.made = 0 THEN fs ELSE <<>>

\* Lines 240-247: leaving _create_config. With content None nothing was
\* made; otherwise the with block of make_temp is left, on a return and on
\* an exception alike.
FilesAfterExit(fs, rec) ==
    make_temp_exit(fs, {rec.config_file[i] : i \in DOMAIN rec.config_file})

\* _create_config testing `not content` in place of `content is None`.
AfterGenerateConfigFalsy(rec, content) ==
    [rec EXCEPT !.trace = Append(@, "generate_config"),
                !.gc_passed = rec.gc_kwargs,
                !.content = content,
                !.pc = IF content \in {"None", ""} THEN "create_arguments"
                       ELSE "make_temp"]

\* Lines 239-243: generate_config returned `content`.
AfterGenerateConfig(rec, content) ==
    [rec EXCEPT !.trace = Append(@, "generate_config"),
                !.gc_passed = rec.gc_kwargs,
                !.content = content,
                !.pc = IF content = "None" THEN "create_arguments"
                       ELSE "make_temp"]

\* run() reporting the error but going on to the tool (no return).
AfterCreateArgumentsNoReturn(rec, args) ==
    IF args = "not_iterable"
    THEN [rec EXCEPT !.errs = @ + 1, !.pc = "run_shell_command"]
    ELSE [rec EXCEPT !.pc = "run_shell_command"]

\* run() letting the TypeError of tuple(args) escape.
AfterCreateArgumentsNoCatch(rec, args) ==
    IF args = "not_iterable"
    THEN [rec EXCEPT !.outcome = "raised", !.pc = "exit"]
    ELSE [rec EXCEPT !.pc = "run_shell_command"]

\* Lines 267-272: tuple(args) of what create_arguments returned; a value
\* that cannot be iterated is reported with self.err and run() returns.
AfterCreateArguments(rec, args) ==
    IF args = "not_iterable"
    THEN [rec EXCEPT !.errs = @ + 1, !.outcome = "not_iterable",
                     !.result = PyNone, !.pc = "exit"]
    ELSE [rec EXCEPT !.pc = "run_shell_command"]

\* itertools.compress(data, selectors) on a pair.
compress(data, selectors) ==
    (IF selectors[1] = "True" THEN <<data[1]>> ELSE <<>>)
        \o (IF selectors[2] = "True" THEN <<data[2]>> ELSE <<>>)

\* run() without lines 283-284: a single stream stays a one-element tuple.
SelectOutputNoUnwrap(o, stdout, stderr) ==
    [t |-> "tuple",
     v |-> compress(<<stdout, stderr>>, <<o["use_stdout"], o["use_stderr"]>>)]

\* Lines 281-284: the output handed to process_output.
SelectOutput(o, stdout, stderr) ==
    LET output == compress(<<stdout, stderr>>,
                           <<o["use_stdout"], o["use_stderr"]>>)
    IN  IF Len(output) = 1 THEN PyStr(<<output[1]>>)
        ELSE [t |-> "tuple", v |-> output]

\* Lines 249-253 and 255: run() is called with one of the parameter maps K
\* and enters _create_config.
run_call(r, K) ==
    /\ phase = "created"
    /\ runs[r].pc = "idle"
    /\ \E kwargs \in K :
        runs' = [runs EXCEPT ![r] =
                    [IdleRun EXCEPT !.pc = "generate_config",
                                    !.kwargs = kwargs,
                                    !.caller_kwargs = kwargs,
                                    !.gc_kwargs =
                                        GenerateConfigKwargs(sig, kwargs)]]
    /\ UNCHANGED <<declaration, files, log>>

\* run() called with any parameter map.
run_start(r) == run_call(r, Kwargs)

\* Lines 239-241: the call of generate_config, which returns or raises.
generate_config(r) ==
    /\ runs[r].pc = "generate_config"
    /\ \/ \E content \in Contents :
            runs' = [runs EXCEPT ![r] = AfterGenerateConfig(@, content)]
       \/ runs' = [runs EXCEPT ![r] =
                    [@ EXCEPT !.trace = Append(@, "generate_config"),
                              !.gc_passed = runs[r].gc_kwargs,
                              !.outcome = "raised", !.pc = "exit"]]
    /\ UNCHANGED <<declaration, files, log>>

\* Lines 243-244: make_temp creates a file under a name not in use.
make_temp(r) ==
    /\ runs[r].pc = "make_temp"
    /\ \E path \in Paths \ DOMAIN files :
        /\ files' = [q \in DOMAIN files \cup {path} |->
                        IF q = path THEN "" ELSE files[q]]
        /\ runs' = [runs EXCEPT ![r] =
                        [@ EXCEPT !.config_file = <<path>>,
                                  !.made = @ + 1,
                                  !.pc = "write_config"]]
    /\ UNCHANGED <<declaration, log>>

\* Lines 245-247: the content is written and the path is yielded; content
\* that cannot be written raises, inside the with block of make_temp.
write_config(r) ==
    /\ runs[r].pc = "write_config"
    /\ IF runs[r].content = NonStr
       THEN /\ runs' = [runs EXCEPT ![r] =
                            [@ EXCEPT !.outcome = "raised", !.pc = "exit"]]
            /\ UNCHANGED files
       ELSE /\ files' = [files EXCEPT ![runs[r].config_file[1]] =
                                            runs[r].content]
            /\ runs' = [runs EXCEPT ![r] =
                            [@ EXCEPT !.pc = "create_arguments"]]
    /\ UNCHANGED <<declaration, log>>

\* Lines 260-272: the call of create_arguments, which returns something
\* iterable, something that is not, or raises.
create_arguments(r) ==
    /\ runs[r].pc = "create_arguments"
    /\ LET called == [runs[r] EXCEPT
                        !.trace = Append(@, "create_arguments"),
                        !.ca_passed = CreateArgumentsKwargs(sig, runs[r].kwargs),
                        !.ca_config = runs[r].config_file]
       IN  \/ \E args \in {"iterable", "not_iterable"} :
                /\ runs' = [runs EXCEPT ![r] =
                                AfterCreateArguments(
                                    [called EXCEPT !.args = args], args)]
                /\ log' = IF args = "not_iterable"
                          THEN [log EXCEPT !.not_iterable = TRUE] ELSE log
           \/ /\ runs' = [runs EXCEPT ![r] =
                            [called EXCEPT !.outcome = "raised",
                                           !.pc = "exit"]]
              /\ UNCHANGED log
    /\ UNCHANGED <<declaration, files>>

\* Lines 274-287: the tool is run on the arguments (which may name the
\* config file) and its output is reduced to the streams in use.
run_shell_command(r) ==
    /\ runs[r].pc = "run_shell_command"
    /\ LET called == [runs[r] EXCEPT
                        !.trace = Append(@, "run_shell_command"),
                        !.tool_args = runs[r].config_file,
                        !.stdin = IF options["use_stdin"] = "True"
                                  THEN "joined file" ELSE "None"]
       IN  \/ \E stdout \in {"", "out"}, stderr \in {"err"} :
                runs' = [runs EXCEPT ![r] =
                    [called EXCEPT
                        !.captured = <<stdout, stderr>>,
                        !.output = SelectOutput(options, stdout, stderr),
                        !.po_passed =
                            ProcessOutputKwargs(options, sig, runs[r].kwargs),
                        !.pc = "process_output"]]
           \/ runs' = [runs EXCEPT ![r] =
                        [called EXCEPT !.outcome = "raised", !.pc = "exit"]]
    /\ UNCHANGED <<declaration, files, log>>

\* Lines 288-289: the call of process_output, whose result run() returns.
process_output(r) ==
    /\ runs[r].pc = "process_output"
    /\ \/ runs' = [runs EXCEPT ![r] =
                    [@ EXCEPT !.trace = Append(@, "process_output"),
                              !.result = PyStr(<<"results">>),
                              !.outcome = "completed", !.pc = "exit"]]
       \/ runs' = [runs EXCEPT ![r] =
                    [@ EXCEPT !.trace = Append(@, "process_output"),
                              !.outcome = "raised", !.pc = "exit"]]
    /\ UNCHANGED <<declaration, files, log>>

\* Lines 255 and 240-247: the with block is left, by a return or by an
\* exception, and run() hands its outcome to the caller.
exit_config(r) ==
    /\ runs[r].pc = "exit"
    /\ files' = FilesAfterExit(files, runs[r])
    /\ runs' = [runs EXCEPT ![r] = [@ EXCEPT !.pc = "done"]]
    /\ UNCHANGED <<declaration, log>>

\* The caller has the outcome; the locals of the call are gone.
run_return(r) ==
    /\ runs[r].pc = "done"
    /\ runs' = [runs EXCEPT ![r] = IdleRun]
    /\ UNCHANGED <<declaration, files, log>>

\* Lines 194-204: get_metadata() is asked of the class, at any time.
get_metadata ==
    /\ phase = "created"
    /\ merged_metadata' =
            [called |-> TRUE, names |-> GetMetadata(options, sig)]
    /\ UNCHANGED <<phase, options, format_class, klass_po, error, prereq,
                   sig, files, runs, log>>

\* The linters run() is checked on: those linter() and _create_linter
\* accept, with every stream selection and both kinds of result stage.
RunnableOptions ==
    {o \in {LinterOptions(i, so, se, "", "()", f, <<>>) :
                i \in Bools, so \in Bools, se \in Bools,
                f \in {"None", "regex"}} :
        PrepareError(o) = NoError}

\* One run() at a time on a created linter class.
Init ==
    /\ phase = "created"
    /\ options \in RunnableOptions
    /\ format_class = PrepareResult(options)
    /\ klass_po \in {"absent", "callable"}
    /\ CreateLinterError(options, klass_po) = NoError
    /\ error = NoError
    /\ prereq = NoPrereq
    /\ sig \in Signatures
    /\ files = <<>>
    /\ runs = [r \in {1} |-> IdleRun]
    /\ log = NoLog
    /\ merged_metadata = NoMetadata

Next ==
    \/ \E r \in DOMAIN runs : run_start(r)
    \/ \E r \in DOMAIN runs : generate_config(r)
    \/ \E r \in DOMAIN runs : make_temp(r)
    \/ \E r \in DOMAIN runs : write_config(r)
    \/ \E r \in DOMAIN runs : create_arguments(r)
    \/ \E r \in DOMAIN runs : run_shell_command(r)
    \/ \E r \in DOMAIN runs : process_output(r)
    \/ \E r \in DOMAIN runs : exit_config(r)
    \/ \E r \in DOMAIN runs : run_return(r)
    \/ get_metadata

Spec == Init /\ [][Next]_vars

(***************************************************************************)
(* Two threads calling run() on one linter object at the same time. Each   *)
(* call has its own locals (its entry of runs); the options, the class and *)
(* the file system are shared. A step is one call made by run(), so the    *)
(* calls of the two runs interleave in every order.                        *)
(***************************************************************************)

\* The parameter maps of the concurrent callers: the same name with
\* different values.
ConcurrentKwargs == {[k \in {"mode"} |-> v] : v \in KwValues}

\* A linter with a custom process_output, every stage declaring "mode".
InitConcurrent ==
    /\ phase = "created"
    /\ options \in {o \in RunnableOptions :
                        /\ o["output_format"] = "None"
                        /\ o["use_stdin"] = "False"
                        /\ o["use_stdout"] = "True"}
    /\ format_class = PrepareResult(options)
    /\ klass_po = "callable"
    /\ error = NoError
    /\ prereq = NoPrereq
    /\ sig \in {sg \in Signatures :
                    /\ "mode" \in sg.generate_config
                    /\ "mode" \in sg.create_arguments
                    /\ "mode" \in sg.process_output}
    /\ files = <<>>
    /\ runs = [r \in {1, 2} |-> IdleRun]
    /\ log = NoLog
    /\ merged_metadata = NoMetadata

NextConcurrent ==
    \/ \E r \in DOMAIN runs : run_call(r, ConcurrentKwargs)
    \/ \E r \in DOMAIN runs : generate_config(r)
    \/ \E r \in DOMAIN runs : make_temp(r)
    \/ \E r \in DOMAIN runs : write_config(r)
    \/ \E r \in DOMAIN runs : create_arguments(r)
    \/ \E r \in DOMAIN runs : run_shell_command(r)
    \/ \E r \in DOMAIN runs : process_output(r)
    \/ \E r \in DOMAIN runs : exit_config(r)
    \/ \E r \in DOMAIN runs : run_return(r)

SpecConcurrent == InitConcurrent /\ [][NextConcurrent]_vars

(***************************************************************************)
(* Properties of the declaration of a linter (SpecLinter).                 *)
(***************************************************************************)

Declared == phase # "start"
ClassGiven == klass_po # "undeclared"
CustomSupplied == klass_po = "callable"
HasFormat == options["output_format"] # "None"

\* C2: a created linter class has exactly one of a custom process_output
\* and a non-None output_format; a class that defines process_output
\* together with an output_format, or has neither a callable process_output
\* nor an output_format, ends in a ValueError and no class is created.
C2_ExactlyOneResultStage ==
    /\ phase = "created" => (CustomSupplied /\ ~HasFormat)
                            \/ (~CustomSupplied /\ HasFormat)
    /\ (ClassGiven /\ HasFormat /\ klass_po # "absent") =>
            /\ phase = "error"
            /\ error.kind = "ValueError: Found process_output already defined"
    /\ (ClassGiven /\ ~HasFormat /\ klass_po # "callable") =>
            /\ phase = "error"
            /\ error.kind = "ValueError: process_output not provided"

C2_Witness_Conflict ==
    /\ ClassGiven /\ HasFormat /\ klass_po = "callable" /\ phase = "error"

\* The option names the claim C5 calls superfluous.
ClaimSuperfluous ==
    DOMAIN options \
        (FixedOptions
         \cup (IF options["output_format"] \in FormatNames
               THEN FormatOptionNames(options["output_format"]) ELSE {})
         \cup (IF options["prerequisite_check_command"] # "()"
               THEN {"prerequisite_check_fail_message"} ELSE {}))

PassesStreamCheck ==
    options["use_stdout"] = "True" \/ options["use_stderr"] = "True"
PassesFormatCheck == options["output_format"] \in FormatNames \cup {"None"}
PassesTypeCheck ==
    ~(/\ options["prerequisite_check_command"] # "()"
      /\ "prerequisite_check_fail_message" \in DOMAIN options
      /\ options["prerequisite_check_fail_message"] = NonStr)

InvalidKeywordError ==
    /\ phase = "error"
    /\ error.kind = "ValueError: Invalid keyword arguments provided"

\* The error lists exactly the superfluous names, each once, ascending.
ListsSuperfluousSorted ==
    /\ {error.names[i] : i \in 1..Len(error.names)} = ClaimSuperfluous
    /\ \A i, j \in 1..Len(error.names) :
            i < j => Rank(error.names[i]) < Rank(error.names[j])

\* C5 as stated: every option set that passes the stream check and the
\* output_format check fails with the invalid-keyword error exactly when a
\* superfluous name is present, and the error lists all of them sorted.
C5_Original ==
    (Declared /\ PassesStreamCheck /\ PassesFormatCheck) =>
        /\ InvalidKeywordError <=> ClaimSuperfluous # {}
        /\ InvalidKeywordError => ListsSuperfluousSorted

\* C5 (amended): the same for every option set that also passes the type
\* check of prerequisite_check_fail_message, which runs before the
\* superfluous-option check and raises a TypeError of its own.
C5_SuperfluousOptionsListed ==
    (Declared /\ PassesStreamCheck /\ PassesTypeCheck /\ PassesFormatCheck) =>
        /\ InvalidKeywordError <=> ClaimSuperfluous # {}
        /\ InvalidKeywordError => ListsSuperfluousSorted

C5_Witness_TwoSuperfluous ==
    /\ InvalidKeywordError
    /\ Len(error.names) >= 2
    /\ options["prerequisite_check_command"] = "()"
    /\ "prerequisite_check_fail_message" \in ClaimSuperfluous

\* C6: with use_stdout and use_stderr both false, linter() fails with the
\* no-output-stream error whatever the other options are, and no linter
\* class is created.
C6_NoOutputStreamFails ==
    (Declared /\ ~PassesStreamCheck) =>
        /\ phase = "error"
        /\ error.kind = "ValueError: No output streams provided at all."

C6_Witness_OtherwiseInvalidToo ==
    /\ Declared /\ ~PassesStreamCheck
    /\ options["output_format"] = "xml"
    /\ "zeta" \in DOMAIN options
    /\ options["prerequisite_check_command"] # "()"
    /\ "prerequisite_check_fail_message" \in DOMAIN options
    /\ options["prerequisite_check_fail_message"] = NonStr

\* C8: check_prerequisites never raises; a missing executable gives the
\* not-installed message (plus the hint when non-empty) without running the
\* prerequisite command; a found executable with a command configured runs
\* it and gives True on success and the configured fail message when it
\* exits non-zero or cannot be started; a found executable without a
\* command gives True.
C8_CheckPrerequisitesDecides ==
    prereq.called =>
        /\ ~prereq.raised
        /\ prereq.which = "missing" =>
            /\ ~prereq.ran
            /\ prereq.result.t = "str"
            /\ prereq.result.v =
                 IF options["executable_check_fail_info"] = ""
                 THEN <<"repr:", options["executable"], " is not installed.">>
                 ELSE <<"repr:", options["executable"], " is not installed.",
                        " ", options["executable_check_fail_info"]>>
        /\ (prereq.which = "found"
            /\ options["prerequisite_check_command"] # "()") =>
            /\ prereq.ran
            /\ prereq.call = "ok" => prereq.result = PyTrue
            /\ prereq.call # "ok" =>
                 prereq.result =
                    PyStr(<<options["prerequisite_check_fail_message"]>>)
        /\ (prereq.which = "found"
            /\ options["prerequisite_check_command"] = "()") =>
            /\ ~prereq.ran
            /\ prereq.result = PyTrue

C8_Witness_CommandCannotStart ==
    /\ prereq.called /\ prereq.which = "found" /\ prereq.ran
    /\ prereq.call = "OSError"
    /\ prereq.result = PyStr(<<DefaultFailMessage>>)

(***************************************************************************)
(* Properties of run() (Spec).                                             *)
(***************************************************************************)

Called(rec, stage) == \E i \in 1..Len(rec.trace) : rec.trace[i] = stage
Exited(rec) == rec.pc = "done"
ReturnedContent(rec) == rec.content \notin {"unset", "None"}
AllStages ==
    <<"generate_config", "create_arguments", "run_shell_command",
      "process_output">>

\* C1: once run() has exited, the temporary config file it created (when
\* generate_config returned content) does not exist, on every exit path.
C1_ConfigFileRemovedOnExit ==
    \A r \in DOMAIN runs :
        (Exited(runs[r]) /\ runs[r].made > 0) =>
            /\ ReturnedContent(runs[r])
            /\ runs[r].config_file[1] \notin DOMAIN files

C1_Witness_ToolRaised ==
    \E r \in DOMAIN runs :
        /\ Exited(runs[r]) /\ runs[r].made = 1
        /\ runs[r].outcome = "raised"
        /\ runs[r].trace = SubSeq(AllStages, 1, 3)
        /\ files = <<>>

\* C3: when create_arguments returns something that cannot be iterated,
\* run() logs one error, returns None, does not raise, and calls neither
\* the tool nor process_output; afterwards the linter is as before the run.
C3_NonIterableArguments ==
    /\ \A r \in DOMAIN runs :
        /\ runs[r].args = "not_iterable" =>
            /\ runs[r].pc \in {"exit", "done"}
            /\ runs[r].outcome = "not_iterable"
            /\ runs[r].errs = 1
            /\ runs[r].result = PyNone
            /\ ~Called(runs[r], "run_shell_command")
            /\ ~Called(runs[r], "process_output")
        /\ runs[r].errs > 0 => runs[r].args = "not_iterable"
    /\ (log.not_iterable /\ \A r \in DOMAIN runs : runs[r].pc = "idle") =>
        /\ files = <<>>
        /\ \A r \in DOMAIN runs : runs[r] = IdleRun

C3_Witness_LaterRunCompletes ==
    \E r \in DOMAIN runs :
        /\ log.not_iterable
        /\ Exited(runs[r]) /\ runs[r].outcome = "completed"

\* C4: the stages of one run happen in the order generate_config,
\* create_arguments, tool, process_output, each at most once; the tool runs
\* only on arguments that were built; a run that has exited completed with
\* the result of process_output after all four stages, or failed.
C4_StageOrder ==
    \A r \in DOMAIN runs :
        /\ Len(runs[r].trace) <= Len(AllStages)
        /\ runs[r].trace = SubSeq(AllStages, 1, Len(runs[r].trace))
        /\ Called(runs[r], "run_shell_command") => runs[r].args = "iterable"
        /\ Exited(runs[r]) =>
                runs[r].outcome \in {"completed", "not_iterable", "raised"}
        /\ runs[r].outcome = "completed" <=>
                /\ runs[r].pc \in {"exit", "done"}
                /\ runs[r].trace = AllStages
                /\ runs[r].result = PyStr(<<"results">>)

C4_Witness_Completed ==
    \E r \in DOMAIN runs :
        /\ Exited(runs[r]) /\ runs[r].outcome = "completed"
        /\ runs[r].trace = AllStages

\* C7: process_output gets the pair (stdout, stderr) when both streams are
\* used, the stdout string alone or the stderr string alone when one is,
\* and never a tuple of fewer than two elements.
C7_OutputByStreamFlags ==
    \A r \in DOMAIN runs :
        (runs[r].pc = "process_output" \/ Called(runs[r], "process_output")) =>
            /\ (options["use_stdout"] = "True"
                /\ options["use_stderr"] = "True") =>
                    runs[r].output = [t |-> "tuple", v |-> runs[r].captured]
            /\ (options["use_stdout"] = "True"
                /\ options["use_stderr"] = "False") =>
                    runs[r].output = PyStr(<<runs[r].captured[1]>>)
            /\ (options["use_stdout"] = "False"
                /\ options["use_stderr"] = "True") =>
                    runs[r].output = PyStr(<<runs[r].captured[2]>>)
            /\ runs[r].output.t = "tuple" => Len(runs[r].output.v) = 2

C7_Witness_StderrOnly ==
    \E r \in DOMAIN runs :
        /\ Called(runs[r], "process_output")
        /\ options["use_stdout"] = "False"
        /\ runs[r].captured = <<"out", "err">>
        /\ runs[r].output = PyStr(<<"err">>)

\* The names a stage declares for routing: its parameters without the
\* structurally fixed ones, and none at all for the process_output of a
\* built-in output format.
DeclaredNames(stage) ==
    IF stage = "process_output" /\ options["output_format"] # "None"
    THEN {}
    ELSE sig[stage] \ {"self", "output", "filename", "file", "config_file"}

Routed(rec, stage) ==
    [k \in DeclaredNames(stage) \cap DOMAIN rec.caller_kwargs |->
        rec.caller_kwargs[k]]

\* C9: each stage is passed exactly the caller's named parameters whose
\* names it declares, with the caller's values, whatever the other stages
\* declare; the caller's parameter map stays as the caller passed it.
C9_ParametersRouted ==
    \A r \in DOMAIN runs :
        /\ runs[r].kwargs = runs[r].caller_kwargs
        /\ Called(runs[r], "generate_config") =>
                runs[r].gc_passed = Routed(runs[r], "generate_config")
        /\ Called(runs[r], "create_arguments") =>
                runs[r].ca_passed = Routed(runs[r], "create_arguments")
        /\ Called(runs[r], "process_output") =>
                runs[r].po_passed = Routed(runs[r], "process_output")

C9_Witness_SharedName ==
    \E r \in DOMAIN runs :
        /\ Called(runs[r], "process_output")
        /\ DOMAIN runs[r].caller_kwargs = {"mode", "unused"}
        /\ DOMAIN runs[r].gc_passed = {"mode"}
        /\ DOMAIN runs[r].ca_passed = {"mode"}
        /\ DOMAIN runs[r].po_passed = {"mode"}
        /\ runs[r].gc_passed["mode"] = "y"

\* C10: a run creates one temporary file when generate_config returns
\* content and none when it returns None; create_arguments is passed None
\* in the second case and the path of the file in the first, and the file
\* exists with exactly that content while create_arguments, the tool and
\* process_output run.
C10_ConfigFileIffContent ==
    \A r \in DOMAIN runs :
        /\ runs[r].made \in {0, 1}
        /\ runs[r].made = 1 => ReturnedContent(runs[r])
        /\ (ReturnedContent(runs[r]) /\ runs[r].pc # "make_temp") =>
                runs[r].made = 1
        /\ runs[r].content = "None" =>
                /\ runs[r].config_file = <<>>
                /\ Called(runs[r], "create_arguments") =>
                        runs[r].ca_config = <<>>
        /\ (ReturnedContent(runs[r]) /\ Called(runs[r], "create_arguments")) =>
                /\ Len(runs[r].ca_config) = 1
                /\ runs[r].ca_config = runs[r].config_file
        /\ (ReturnedContent(runs[r])
            /\ runs[r].pc \in {"create_arguments", "run_shell_command",
                               "process_output"}) =>
                /\ runs[r].config_file[1] \in DOMAIN files
                /\ files[runs[r].config_file[1]] = runs[r].content

C10_Witness_EmptyContentFile ==
    \E r \in DOMAIN runs :
        /\ runs[r].pc = "process_output"
        /\ runs[r].content = ""
        /\ runs[r].made = 1
        /\ files[runs[r].config_file[1]] = ""

(***************************************************************************)
(* Properties of concurrent runs (SpecConcurrent).                         *)
(***************************************************************************)

\* The run has made its config file and has not left _create_config yet.
InUse(rec) ==
    /\ rec.made = 1
    /\ rec.pc \in {"write_config", "create_arguments", "run_shell_command",
                   "process_output", "exit"}

\* What holds of the two runs in every state.
OwnFileAndOutput ==
    \A r \in DOMAIN runs :
        /\ \A q \in DOMAIN runs \ {r} :
                (InUse(runs[r]) /\ InUse(runs[q])) =>
                    runs[r].config_file # runs[q].config_file
        /\ Called(runs[r], "create_arguments") =>
                runs[r].ca_config = runs[r].config_file
        /\ Called(runs[r], "run_shell_command") =>
                runs[r].tool_args = runs[r].config_file
        /\ (ReturnedContent(runs[r])
            /\ runs[r].pc \in {"create_arguments", "run_shell_command",
                               "process_output"}) =>
                /\ runs[r].config_file[1] \in DOMAIN files
                /\ files[runs[r].config_file[1]] = runs[r].content
        /\ (runs[r].pc = "process_output"
            \/ Called(runs[r], "process_output")) =>
                /\ runs[r].output =
                     IF options["use_stderr"] = "True"
                     THEN [t |-> "tuple", v |-> runs[r].captured]
                     ELSE PyStr(<<runs[r].captured[1]>>)
                /\ runs[r].po_passed = runs[r].caller_kwargs

\* What holds of every step: the options and the class stay as they are,
\* and a file disappears only by the exit of the run that made it, while
\* no other run uses a file of that name.
StepKeepsOthers ==
    /\ options' = options
    /\ sig' = sig
    /\ \A p \in DOMAIN files \ DOMAIN files' :
        \E r \in DOMAIN runs :
            /\ runs[r].pc = "exit" /\ runs'[r].pc = "done"
            /\ runs[r].config_file = <<p>>
            /\ \A q \in DOMAIN runs \ {r} :
                    ~(InUse(runs[q]) /\ runs[q].config_file = <<p>>)

\* C11: under every interleaving of two runs on one linter, each run hands
\* its create_arguments and its tool the config file it made itself, which
\* exists with its own content until its own exit; an exit removes only the
\* file of the exiting run; process_output gets the output of the run's own
\* tool call and the run's own parameters; no step changes the options.
C11_ConcurrentRunsIsolated ==
    []OwnFileAndOutput /\ [][StepKeepsOthers]_vars

C11_Witness_OneExitedOtherInUse ==
    /\ runs[1].pc = "done" /\ runs[1].made = 1
    /\ runs[1].outcome = "completed"
    /\ runs[2].pc = "process_output" /\ runs[2].made = 1
    /\ Called(runs[2], "run_shell_command")
    /\ runs[2].config_file[1] \in DOMAIN files
    /\ runs[1].captured # runs[2].captured
    /\ runs[1].caller_kwargs # runs[2].caller_kwargs

(***************************************************************************)
(* Properties of the result stage's parameters (Spec).                     *)
(***************************************************************************)

\* The parameters of process_output besides self, output, filename, file.
ProcessOutputOwnParams ==
    sig.process_output \ {"self", "output", "filename", "file"}

\* The parameters generate_config and create_arguments declare.
OtherStagesParams ==
    (sig.generate_config \ {"filename", "file"})
        \cup (sig.create_arguments
                \ {"self", "filename", "file", "config_file"})

====
